---------------------------- MODULE Spec2Model ----------------------------
(***************************************************************************)
(* Smart attendance system: face matching (face_recognition_model.py),     *)
(* the capture pipeline and its in-memory cooldown map                     *)
(* (attendance_system.py) and the durable attendance table (database.py).  *)
(*                                                                         *)
(* Units.  Time is counted in ticks, TicksPerSecond ticks to the second,   *)
(* so that time.time() and datetime.now() keep a sub-second part while     *)
(* strftime(DATETIME_FORMAT) drops it.  Embeddings are points on a line    *)
(* and distances and confidences are counted in hundredths (0.6 is 60).    *)
(***************************************************************************)
EXTENDS Integers, Sequences, FiniteSets, TLC

VARIABLES
    now,              \* the wall clock, in ticks
    attendance,       \* table attendance: rows in insertion (id) order
    users,            \* table users: name -> id
    enc_file,         \* ENCODINGS_FILE: the pickled list of encodings
    names_file,       \* NAMES_FILE: the pickled list of names
    known_encodings,  \* per process: FaceRecognitionModel.known_encodings
    known_names,      \* per process: FaceRecognitionModel.known_names
    last_attendance,  \* per process: AttendanceSystem.last_attendance (a dict)
    pc,               \* per process: where the process stands
    pending,          \* per process: the (name, confidence) pairs still to loop over
    current_time,     \* per process: process_attendance's current_time
    mark_now,         \* per process: mark_attendance's now
    key,              \* per process: run's key, the last one waitKey gave
    message,          \* per process: the message of the last mark_attendance
    match,            \* the result of the last stand-alone match
    cooldown_minutes, \* the configured ATTENDANCE_COOLDOWN_MINUTES
    file_state,       \* ENCODINGS_FILE and NAMES_FILE: ok, missing or corrupt
    ret,              \* per process: what add_person / remove_person returned
    printed,          \* per process: the last report of the face model or of main
    user_seq,         \* sqlite_sequence of users: the highest id given so far
    to_remove         \* per process: remove_person's indices_to_remove

vars == <<now, attendance, users, enc_file, names_file, known_encodings,
          known_names, last_attendance, pc, pending, current_time, mark_now,
          key, message, match, cooldown_minutes, file_state, ret, printed, user_seq, to_remove>>

-----------------------------------------------------------------------------
(* Bounds of the model *)

TicksPerSecond == 2
MaxWindows == 1
MaxFaces == 2
MaxRows == 2
MaxPop == 2
AltCooldownMinutes == 1
MaxStore == 2
MaxImages == 2
MaxUsers == 2

(* Program constants *)

ATTENDANCE_COOLDOWN_MINUTES == 5
CONFIDENCE_THRESHOLD == 60
FACE_RECOGNITION_TOLERANCE == 60
MarkMinutes == 5
SecondsPerMinute == 60
One == 100

Unknown == "Unknown"
Persons == {"alice", "bob"}
Streams == {1, 2}

TicksPerMinute == SecondsPerMinute * TicksPerSecond

(* The recorder's window, in ticks. *)
Window == MarkMinutes * TicksPerMinute

(* The clock is observed within one second of a whole number of windows    *)
(* (the recorder's, and the configured one) after the start, tick by tick. *)
Epoch == Window
ClockOffsets == {0 - TicksPerSecond, 0 - 1, 0, 1, TicksPerSecond}
ClockInstants(minutes) ==
    {Epoch + w * minutes * TicksPerMinute + k :
        w \in 0..MaxWindows, k \in ClockOffsets}
Instants == ClockInstants(MarkMinutes)

(* Embeddings shown to the camera, and those a population is built from. *)
FaceInputs == {0, 40, 45, 120, 200}
PopEmbeddings == {0, 121, 200}
MatchInputs == {0, 60, 61, 200}

(* A local that holds no value: an instant before the clock's first one. *)
NoTime == Epoch - Window
EmptyDict == [n \in {} |-> NoTime]

-----------------------------------------------------------------------------
(* face_recognition_model.py *)

Abs(x) == IF x < 0 THEN 0 - x ELSE x

(* face_recognition.face_distance: the Euclidean norm of the difference. *)
face_distance(encs, x) == [i \in 1..Len(encs) |-> Abs(encs[i] - x)]

(* compare_faces with a strict distance < tolerance *)
compare_faces_strict(encs, x, tolerance) ==
    [i \in 1..Len(encs) |-> Abs(encs[i] - x) < tolerance]

(* face_recognition.compare_faces: distance <= tolerance. *)
compare_faces(encs, x, tolerance) ==
    [i \in 1..Len(encs) |-> face_distance(encs, x)[i] <= tolerance]

(* argmin as a scan that keeps the last index holding the minimum *)
argmin_last(d) ==
    CHOOSE i \in 1..Len(d) :
        /\ \A j \in 1..Len(d) : d[i] <= d[j]
        /\ \A j \in (i + 1)..Len(d) : d[j] > d[i]

(* np.argmin: the first index holding the minimum. *)
argmin(d) ==
    CHOOSE i \in 1..Len(d) :
        /\ \A j \in 1..Len(d) : d[i] <= d[j]
        /\ \A j \in 1..(i - 1) : d[j] > d[i]

(* self.known_names[best_match_index] past the end of known_names raises. *)
IndexError == "IndexError"

(* One pass of the loop of recognize_faces over face_encodings. *)
recognize_face(encs, names, x) ==
    LET matches == compare_faces(encs, x, FACE_RECOGNITION_TOLERANCE)
        face_distances == face_distance(encs, x)
    IN  IF Len(face_distances) > 0
        THEN LET best_match_index == argmin(face_distances)
             IN  IF matches[best_match_index]
                 THEN IF best_match_index \in 1..Len(names)
                      THEN [name |-> names[best_match_index],
                            confidence |-> One - face_distances[best_match_index]]
                      ELSE [name |-> IndexError, confidence |-> 0]
                 ELSE [name |-> Unknown, confidence |-> 0]
        ELSE [name |-> Unknown, confidence |-> 0]

recognize_faces(encs, names, faces) ==
    [i \in 1..Len(faces) |-> recognize_face(encs, names, faces[i])]

(* get_known_names *)
get_known_names(names) == {names[i] : i \in 1..Len(names)}

(* What add_person and remove_person return (a Python bool is the integer  *)
(* 1 or 0), and nothing returned yet.                                       *)
True == 1
False == 0
NoRet == 0 - 1

(* The reports of the face model and of main. *)
MsgLoaded == "Loaded face encodings"
MsgLoadError == "Error loading encodings"
MsgFresh == "No existing encodings found. Starting fresh."
MsgSaved == "Saved face encodings"
MsgSaveError == "Error saving encodings"
MsgNoValid == "No valid face encodings found"
MsgRemoved == "Removed encodings"
MsgNoEncodings == "No encodings found"
MsgNoUsers == "No users registered yet!"
MsgFatal == "Error"

(* The two files as they are on disk. *)
FileStates == {"ok", "missing", "corrupt"}
FilesOk == [enc |-> "ok", names |-> "ok"]

(* load_encodings that keeps what it had unpickled when the second file    *)
(* fails to load                                                            *)
load_encodings_keeps_partial(fs, ef, nf) ==
    IF fs.enc # "missing" /\ fs.names # "missing"
    THEN IF fs.enc = "ok"
         THEN IF fs.names = "ok"
              THEN [encodings |-> ef, names |-> nf, printed |-> MsgLoaded]
              ELSE [encodings |-> ef, names |-> <<>>, printed |-> MsgLoadError]
         ELSE [encodings |-> <<>>, names |-> <<>>, printed |-> MsgLoadError]
    ELSE [encodings |-> <<>>, names |-> <<>>, printed |-> MsgFresh]

(* __init__ and load_encodings: both lists start empty; they are unpickled *)
(* when both files exist, and emptied again when either fails to load.      *)
load_encodings(fs, ef, nf) ==
    IF fs.enc # "missing" /\ fs.names # "missing"
    THEN IF fs.enc = "ok" /\ fs.names = "ok"
         THEN [encodings |-> ef, names |-> nf, printed |-> MsgLoaded]
         ELSE [encodings |-> <<>>, names |-> <<>>, printed |-> MsgLoadError]
    ELSE [encodings |-> <<>>, names |-> <<>>, printed |-> MsgFresh]

(* add_person lines 47-68: an image gives its first face's encoding, or     *)
(* none (it cannot be read, or shows no face).  An image is <<>> or <<e>>.  *)
RECURSIVE person_encodings(_)
person_encodings(image_paths) ==
    IF image_paths = <<>>
    THEN <<>>
    ELSE Head(image_paths) \o person_encodings(Tail(image_paths))

(* the name appended once, however many encodings there are *)
times_once(name, n) == <<name>>

(* [name] * n *)
times(name, n) == [i \in 1..n |-> name]

(* line 121 that stops at the first index that holds name *)
indices_to_remove_first(names, name) ==
    {i \in 1..Len(names) :
        names[i] = name /\ \A j \in 1..(i - 1) : names[j] # name}

(* remove_person line 121: the indices that hold name *)
indices_to_remove(names, name) == {i \in 1..Len(names) : names[i] = name}

(* as many entries as there are indices, taken off the end of the list *)
delete_at_end(list, indices) ==
    SubSeq(list, 1, Len(list) - Cardinality(indices))

(* remove_person lines 125-127 for one list: the entries at the indices    *)
(* are deleted, the others keep their order.                                *)
RECURSIVE delete_at(_, _)
delete_at(list, indices) ==
    IF list = <<>>
    THEN <<>>
    ELSE LET n == Len(list)
             rest == delete_at(SubSeq(list, 1, n - 1), indices)
         IN  IF n \in indices THEN rest ELSE Append(rest, list[n])

-----------------------------------------------------------------------------
(* database.py *)

(* strftime(DATETIME_FORMAT): the instant cut to whole seconds; the strings *)
(* it gives are of one width, so they compare as these numbers do.          *)
strftime(t) == t \div TicksPerSecond

(* timedelta(minutes=m), in ticks *)
timedelta(m) == m * TicksPerMinute

(* get_user_by_name, as mark_attendance uses it: user[0] if user else None *)
get_user_id(u, name) == IF name \in DOMAIN u THEN <<u[name]>> ELSE <<>>

(* is_recent_attendance with the cutoff minutes ahead of the clock *)
is_recent_attendance_ahead(rows, name, minutes, clock) ==
    LET cutoff_time == clock + timedelta(minutes)
        count == Cardinality({i \in 1..Len(rows) :
                                /\ rows[i].name = name
                                /\ rows[i].timestamp > strftime(cutoff_time)})
    IN  count > 0

(* is_recent_attendance: SELECT COUNT( * ) ... WHERE name = ? AND timestamp > ? *)
is_recent_attendance(rows, name, minutes, clock) ==
    LET cutoff_time == clock - timedelta(minutes)
        count == Cardinality({i \in 1..Len(rows) :
                                /\ rows[i].name = name
                                /\ rows[i].timestamp > strftime(cutoff_time)})
    IN  count > 0

(* The messages mark_attendance returns, and none yet. *)
MsgMarked == "Attendance marked successfully"
MsgDuplicate == "Attendance already marked recently"
MsgNone == "none"

(* The row mark_attendance inserts.  instant is a history field: the exact  *)
(* value of now that timestamp was formatted from.                          *)
new_row(u, name, confidence, at) ==
    [user_id |-> get_user_id(u, name), name |-> name,
     timestamp |-> strftime(at), confidence |-> confidence, instant |-> at]

-----------------------------------------------------------------------------
(* attendance_system.py *)

(* The configured cooldown, in ticks: ATTENDANCE_COOLDOWN_MINUTES * 60 s. *)
Cooldown == cooldown_minutes * SecondsPerMinute * TicksPerSecond

(* The face the for loop of process_attendance stands at. *)
face(s) == Head(pending[s])

(* line 127 without the confidence floor *)
unqualified_name_only(f) == f.name = Unknown

(* line 127 that also discards a face whose name has no row of users *)
unqualified_or_unregistered(f) ==
    \/ f.name = Unknown
    \/ f.confidence < CONFIDENCE_THRESHOLD
    \/ f.name \notin DOMAIN users

(* process_attendance line 127: the face is discarded *)
unqualified(f) == f.name = Unknown \/ f.confidence < CONFIDENCE_THRESHOLD

(* lines 131-134 with time_diff <= the cooldown *)
in_cooldown_inclusive(d, name, t) ==
    /\ name \in DOMAIN d
    /\ t - d[name] <= cooldown_minutes * SecondsPerMinute * TicksPerSecond

(* process_attendance lines 131-134: within the cooldown period *)
in_cooldown(d, name, t) ==
    /\ name \in DOMAIN d
    /\ t - d[name] < Cooldown

(* self.last_attendance[name] = current_time *)
dict_set(d, name, t) ==
    [n \in DOMAIN d \cup {name} |-> IF n = name THEN t ELSE d[n]]

(* run, lines 46-62 of a processed frame, up to the head of the loop of     *)
(* process_attendance: the faces are matched, current_time is read.         *)
ReadFrame(s, faces) ==
    /\ pc[s] = "idle"
    /\ pending' = [pending EXCEPT ![s] =
                     recognize_faces(known_encodings[s], known_names[s], faces)]
    /\ current_time' = [current_time EXCEPT ![s] = now]
    /\ pc' = [pc EXCEPT ![s] = "loop"]
    /\ UNCHANGED <<now, attendance, users, enc_file, names_file,
                   known_encodings, known_names, last_attendance, mark_now,
                   key, message, match, cooldown_minutes, file_state, ret, printed, user_seq, to_remove>>

(* line 127-128: an unknown face or one below the floor is passed over *)
SkipUnqualified(s) ==
    /\ pc[s] = "loop"
    /\ pending[s] # <<>>
    /\ unqualified(face(s))
    /\ pending' = [pending EXCEPT ![s] = Tail(@)]
    /\ UNCHANGED <<now, attendance, users, enc_file, names_file,
                   known_encodings, known_names, last_attendance, pc,
                   current_time, mark_now, key, message, match, cooldown_minutes,
                   file_state, ret, printed, user_seq, to_remove>>

(* a face within the cooldown period is passed over and its period starts   *)
(* again from this frame                                                    *)
SkipCooldownExtends(s) ==
    /\ pc[s] = "loop"
    /\ pending[s] # <<>>
    /\ ~unqualified(face(s))
    /\ in_cooldown(last_attendance[s], face(s).name, current_time[s])
    /\ last_attendance' = [last_attendance EXCEPT ![s] =
                             dict_set(@, face(s).name, current_time[s])]
    /\ pending' = [pending EXCEPT ![s] = Tail(@)]
    /\ UNCHANGED <<now, attendance, users, enc_file, names_file,
                   known_encodings, known_names, pc,
                   current_time, mark_now, key, message, match, cooldown_minutes,
                   file_state, ret, printed, user_seq, to_remove>>

(* lines 131-134: a face within the cooldown period is passed over *)
SkipCooldown(s) ==
    /\ pc[s] = "loop"
    /\ pending[s] # <<>>
    /\ ~unqualified(face(s))
    /\ in_cooldown(last_attendance[s], face(s).name, current_time[s])
    /\ pending' = [pending EXCEPT ![s] = Tail(@)]
    /\ UNCHANGED <<now, attendance, users, enc_file, names_file,
                   known_encodings, known_names, last_attendance, pc,
                   current_time, mark_now, key, message, match, cooldown_minutes,
                   file_state, ret, printed, user_seq, to_remove>>

(* line 137 and mark_attendance line 82: the recorder is called, it reads   *)
(* the clock                                                                *)
CallMark(s) ==
    /\ pc[s] = "loop"
    /\ pending[s] # <<>>
    /\ ~unqualified(face(s))
    /\ ~in_cooldown(last_attendance[s], face(s).name, current_time[s])
    /\ mark_now' = [mark_now EXCEPT ![s] = now]
    /\ pc' = [pc EXCEPT ![s] = "recent"]
    /\ UNCHANGED <<now, attendance, users, enc_file, names_file,
                   known_encodings, known_names, last_attendance, pending,
                   current_time, key, message, match, cooldown_minutes,
                   file_state, ret, printed, user_seq, to_remove>>

(* a duplicate outcome after which the cooldown map is set all the same *)
MarkDuplicateSetsGuard(s) ==
    /\ pc[s] = "recent"
    /\ is_recent_attendance(attendance, face(s).name, MarkMinutes, now)
    /\ last_attendance' = [last_attendance EXCEPT ![s] =
                             dict_set(@, face(s).name, current_time[s])]
    /\ pending' = [pending EXCEPT ![s] = Tail(@)]
    /\ mark_now' = [mark_now EXCEPT ![s] = NoTime]
    /\ pc' = [pc EXCEPT ![s] = "loop"]
    /\ message' = [message EXCEPT ![s] = MsgDuplicate]
    /\ UNCHANGED <<now, attendance, users, enc_file, names_file,
                   known_encodings, known_names,
                   current_time, key, match, cooldown_minutes,
                   file_state, ret, printed, user_seq, to_remove>>

(* mark_attendance lines 86-87 and process_attendance line 143: the recency *)
(* check reads the clock again; on a recent row the call returns False and  *)
(* the loop goes on                                                         *)
MarkDuplicate(s) ==
    /\ pc[s] = "recent"
    /\ is_recent_attendance(attendance, face(s).name, MarkMinutes, now)
    /\ pending' = [pending EXCEPT ![s] = Tail(@)]
    /\ mark_now' = [mark_now EXCEPT ![s] = NoTime]
    /\ pc' = [pc EXCEPT ![s] = "loop"]
    /\ message' = [message EXCEPT ![s] = MsgDuplicate]
    /\ UNCHANGED <<now, attendance, users, enc_file, names_file,
                   known_encodings, known_names, last_attendance,
                   current_time, key, match, cooldown_minutes,
                   file_state, ret, printed, user_seq, to_remove>>

(* mark_attendance lines 86-89: no recent row, the call goes on to insert *)
MarkNotRecent(s) ==
    /\ pc[s] = "recent"
    /\ ~is_recent_attendance(attendance, face(s).name, MarkMinutes, now)
    /\ pc' = [pc EXCEPT ![s] = "insert"]
    /\ UNCHANGED <<now, attendance, users, enc_file, names_file,
                   known_encodings, known_names, last_attendance, pending,
                   current_time, mark_now, key, message, match, cooldown_minutes,
                   file_state, ret, printed, user_seq, to_remove>>

(* mark_attendance lines 92-108 and process_attendance lines 139-141: the   *)
(* row is inserted and committed, the call returns True and the cooldown    *)
(* map is set to the frame's current_time                                   *)
MarkInsert(s) ==
    /\ pc[s] = "insert"
    /\ Len(attendance) < MaxRows
    /\ attendance' = Append(attendance,
                            new_row(users, face(s).name, face(s).confidence,
                                    mark_now[s]))
    /\ last_attendance' = [last_attendance EXCEPT ![s] =
                             dict_set(@, face(s).name, current_time[s])]
    /\ pending' = [pending EXCEPT ![s] = Tail(@)]
    /\ mark_now' = [mark_now EXCEPT ![s] = NoTime]
    /\ pc' = [pc EXCEPT ![s] = "loop"]
    /\ message' = [message EXCEPT ![s] = MsgMarked]
    /\ UNCHANGED <<now, users, enc_file, names_file, known_encodings,
                   known_names, current_time, key, match, cooldown_minutes,
                   file_state, ret, printed, user_seq, to_remove>>

(* the loop of process_attendance is over: back in run, at waitKey, line 85 *)
EndFrame(s) ==
    /\ pc[s] = "loop"
    /\ pending[s] = <<>>
    /\ current_time' = [current_time EXCEPT ![s] = NoTime]
    /\ pc' = [pc EXCEPT ![s] = "waitkey"]
    /\ message' = [message EXCEPT ![s] = MsgNone]
    /\ UNCHANGED <<now, attendance, users, enc_file, names_file,
                   known_encodings, known_names, last_attendance, pending,
                   mark_now, key, match, cooldown_minutes,
                   file_state, ret, printed, user_seq, to_remove>>

(* run lines 85-93: no key, or 's' (a screenshot); the loop goes round *)
NoKey(s) ==
    /\ pc[s] = "waitkey"
    /\ key' = [key EXCEPT ![s] = "none"]
    /\ pc' = [pc EXCEPT ![s] = "idle"]
    /\ UNCHANGED <<now, attendance, users, enc_file, names_file,
                   known_encodings, known_names, last_attendance, pending,
                   current_time, mark_now, message, match, cooldown_minutes,
                   file_state, ret, printed, user_seq, to_remove>>

(* key 'r' as a restart of every running cooldown instead of a clear *)
ResetRestartsCooldown(s) ==
    /\ pc[s] = "waitkey"
    /\ key' = [key EXCEPT ![s] = "r"]
    /\ last_attendance' = [last_attendance EXCEPT ![s] =
                             [n \in DOMAIN @ |-> now]]
    /\ pc' = [pc EXCEPT ![s] = "idle"]
    /\ UNCHANGED <<now, attendance, users, enc_file, names_file,
                   known_encodings, known_names, pending, current_time,
                   mark_now, message, match, cooldown_minutes,
                   file_state, ret, printed, user_seq, to_remove>>

(* run lines 94-97: key 'r', self.last_attendance.clear() *)
Reset(s) ==
    /\ pc[s] = "waitkey"
    /\ key' = [key EXCEPT ![s] = "r"]
    /\ last_attendance' = [last_attendance EXCEPT ![s] = EmptyDict]
    /\ pc' = [pc EXCEPT ![s] = "idle"]
    /\ UNCHANGED <<now, attendance, users, enc_file, names_file,
                   known_encodings, known_names, pending, current_time,
                   mark_now, message, match, cooldown_minutes,
                   file_state, ret, printed, user_seq, to_remove>>

(* run lines 86-87 and 99: key 'q', the loop is left and the process ends *)
Quit(s) ==
    /\ pc[s] = "waitkey"
    /\ key' = [key EXCEPT ![s] = "q"]
    /\ pc' = [pc EXCEPT ![s] = "stopped"]
    /\ UNCHANGED <<now, attendance, users, enc_file, names_file,
                   known_encodings, known_names, last_attendance, pending,
                   current_time, mark_now, message, match, cooldown_minutes,
                   file_state, ret, printed, user_seq, to_remove>>

(* A process that runs no capture loop builds a face model: register_user *)
(* line 22, app.py line 20.                                                 *)
Load(s) ==
    /\ pc[s] = "stopped"
    /\ LET m == load_encodings(file_state, enc_file, names_file)
       IN  /\ known_encodings' = [known_encodings EXCEPT ![s] = m.encodings]
           /\ known_names' = [known_names EXCEPT ![s] = m.names]
           /\ printed' = [printed EXCEPT ![s] = m.printed]
    /\ UNCHANGED <<now, attendance, users, enc_file, names_file,
                   last_attendance, pc, pending, current_time, mark_now, key,
                   message, match, cooldown_minutes, file_state, ret, user_seq, to_remove>>

(* add_person lines 47-73 and 76-78: with no encoding from any image it     *)
(* reports and returns False; otherwise both lists are extended and         *)
(* save_encodings is entered.                                               *)
AddPerson(s, name, image_paths) ==
    /\ pc[s] = "stopped"
    /\ LET encs == person_encodings(image_paths)
       IN  IF encs # <<>>
           THEN /\ Len(known_encodings[s]) + Len(encs) <= MaxStore
                /\ Len(known_names[s]) + Len(encs) <= MaxStore
                /\ known_encodings' = [known_encodings EXCEPT ![s] = @ \o encs]
                /\ known_names' = [known_names EXCEPT ![s] =
                                     @ \o times(name, Len(encs))]
                /\ pc' = [pc EXCEPT ![s] = "add:save_enc"]
                /\ UNCHANGED <<ret, printed>>
           ELSE /\ printed' = [printed EXCEPT ![s] = MsgNoValid]
                /\ ret' = [ret EXCEPT ![s] = False]
                /\ UNCHANGED <<known_encodings, known_names, pc>>
    /\ UNCHANGED <<now, attendance, users, enc_file, names_file,
                   last_attendance, pending, current_time, mark_now, key,
                   message, match, cooldown_minutes, file_state, user_seq, to_remove>>

(* remove_person lines 121-127 and 132-134: with no index it reports and    *)
(* returns False; a del past the end of known_encodings raises, which the   *)
(* callers report; otherwise the entries are deleted from both lists and    *)
(* save_encodings is entered.                                               *)
remove_person(s, name) ==
    LET indices == indices_to_remove(known_names[s], name)
    IN  IF indices = {}
        THEN /\ printed' = [printed EXCEPT ![s] = MsgNoEncodings]
             /\ ret' = [ret EXCEPT ![s] = False]
             /\ UNCHANGED <<known_encodings, known_names, pc, to_remove>>
        ELSE IF \E i \in indices : i > Len(known_encodings[s])
             THEN /\ printed' = [printed EXCEPT ![s] = MsgFatal]
                  /\ UNCHANGED <<known_encodings, known_names, pc, to_remove,
                                 ret>>
             ELSE /\ known_encodings' = [known_encodings EXCEPT ![s] =
                                           delete_at(@, indices)]
                  /\ known_names' = [known_names EXCEPT ![s] =
                                       delete_at(@, indices)]
                  /\ pc' = [pc EXCEPT ![s] = "remove:save_enc"]
                  /\ to_remove' = [to_remove EXCEPT ![s] = indices]
                  /\ UNCHANGED <<ret, printed>>

(* remove_person, called on its own (register_user line 44) *)
RemovePerson(s, name) ==
    /\ pc[s] = "stopped"
    /\ remove_person(s, name)
    /\ UNCHANGED <<now, attendance, users, enc_file, names_file,
                   last_attendance, pending, current_time, mark_now, key,
                   message, match, cooldown_minutes, file_state, user_seq>>

(* save_encodings lines 37-38: ENCODINGS_FILE is written *)
SaveEncodings(s) ==
    /\ pc[s] \in {"add:save_enc", "remove:save_enc"}
    /\ enc_file' = known_encodings[s]
    /\ file_state' = [file_state EXCEPT !.enc = "ok"]
    /\ pc' = [pc EXCEPT ![s] = IF pc[s] = "add:save_enc"
                               THEN "add:save_names" ELSE "remove:save_names"]
    /\ UNCHANGED <<now, attendance, users, names_file, known_encodings,
                   known_names, last_attendance, pending, current_time,
                   mark_now, key, message, match, cooldown_minutes, ret,
                   printed, user_seq, to_remove>>

(* save_encodings lines 39-41: NAMES_FILE is written, the save is reported; *)
(* add_person returns True (line 75), remove_person reports and returns     *)
(* True (lines 130-131)                                                     *)
SaveNames(s) ==
    /\ pc[s] \in {"add:save_names", "remove:save_names"}
    /\ names_file' = known_names[s]
    /\ file_state' = [file_state EXCEPT !.names = "ok"]
    /\ printed' = [printed EXCEPT ![s] = IF pc[s] = "add:save_names"
                                         THEN MsgSaved ELSE MsgRemoved]
    /\ ret' = [ret EXCEPT ![s] = True]
    /\ pc' = [pc EXCEPT ![s] = "stopped"]
    /\ to_remove' = [to_remove EXCEPT ![s] = {}]
    /\ UNCHANGED <<now, attendance, users, enc_file, known_encodings,
                   known_names, last_attendance, pending, current_time,
                   mark_now, key, message, match, cooldown_minutes, user_seq>>

(* save_encodings lines 42-43: writing a file raises; the file is as it     *)
(* was, or (cut) left cut short by the open.  The error is reported and the *)
(* caller goes on as after a save.                                          *)
SaveFails(s, cuts) ==
    /\ pc[s] \in {"add:save_enc", "remove:save_enc",
                  "add:save_names", "remove:save_names"}
    /\ \E cut \in cuts :
          IF pc[s] \in {"add:save_enc", "remove:save_enc"}
          THEN /\ enc_file' = IF cut THEN <<>> ELSE enc_file
               /\ file_state' = IF cut THEN [file_state EXCEPT !.enc = "corrupt"]
                                ELSE file_state
               /\ UNCHANGED names_file
          ELSE /\ names_file' = IF cut THEN <<>> ELSE names_file
               /\ file_state' = IF cut THEN [file_state EXCEPT !.names = "corrupt"]
                                ELSE file_state
               /\ UNCHANGED enc_file
    /\ printed' = [printed EXCEPT ![s] =
                     IF pc[s] \in {"add:save_enc", "add:save_names"}
                     THEN MsgSaveError ELSE MsgRemoved]
    /\ ret' = [ret EXCEPT ![s] = True]
    /\ pc' = [pc EXCEPT ![s] = "stopped"]
    /\ to_remove' = [to_remove EXCEPT ![s] = {}]
    /\ UNCHANGED <<now, attendance, users, known_encodings, known_names,
                   last_attendance, pending, current_time, mark_now, key,
                   message, match, cooldown_minutes, user_seq>>

(* add_user (register_user line 75): a new row of users with the next id,   *)
(* or nothing when the name is there already (IntegrityError)               *)
AddUser(s, name) ==
    /\ pc[s] = "stopped"
    /\ name \notin DOMAIN users
    /\ user_seq < MaxUsers
    /\ users' = [n \in DOMAIN users \cup {name} |->
                   IF n = name THEN user_seq + 1 ELSE users[n]]
    /\ user_seq' = user_seq + 1
    /\ UNCHANGED <<now, attendance, enc_file, names_file, known_encodings,
                   known_names, last_attendance, pc, pending, current_time,
                   mark_now, key, message, match, cooldown_minutes,
                   file_state, ret, printed, to_remove>>

(* the DELETE FROM attendance without its WHERE name = ? *)
delete_rows_of_all(rows, name) == SelectSeq(rows, LAMBDA r : FALSE)

(* database.delete_user, lines 190-195 *)
delete_rows(rows, name) == SelectSeq(rows, LAMBDA r : r.name # name)

(* app.py delete_user lines 161-166 (register_user lines 132-135): the      *)
(* attendance rows and the users row of name are deleted and committed,     *)
(* then the face model removes the person.                                  *)
DeleteUser(s, name) ==
    /\ pc[s] = "stopped"
    /\ attendance' = delete_rows(attendance, name)
    /\ users' = [n \in DOMAIN users \ {name} |-> users[n]]
    /\ remove_person(s, name)
    /\ UNCHANGED <<now, enc_file, names_file, last_attendance, pending,
                   current_time, mark_now, key, message, match,
                   cooldown_minutes, file_state, user_seq>>

(* mark_attendance lines 89-102 when the store cannot be written: sqlite3   *)
(* raises, nothing in process_attendance or run catches it, main (lines     *)
(* 200-202) prints the error and exits with status 1.                       *)
MarkFails(s) ==
    /\ pc[s] = "insert"
    /\ pc' = [pc EXCEPT ![s] = "stopped"]
    /\ printed' = [printed EXCEPT ![s] = MsgFatal]
    /\ pending' = [pending EXCEPT ![s] = <<>>]
    /\ current_time' = [current_time EXCEPT ![s] = NoTime]
    /\ mark_now' = [mark_now EXCEPT ![s] = NoTime]
    /\ UNCHANGED <<now, attendance, users, enc_file, names_file,
                   known_encodings, known_names, last_attendance, key,
                   message, match, cooldown_minutes, file_state, ret, user_seq, to_remove>>

(* main lines 186-196 with AttendanceSystem.__init__ lines 21-35: the       *)
(* process is started again; the population is loaded from the files, the   *)
(* cooldown map starts empty and the camera opens.  With no known name main *)
(* returns.                                                                 *)
Start(s) ==
    /\ pc[s] = "stopped"
    /\ LET m == load_encodings(file_state, enc_file, names_file)
       IN  /\ known_encodings' = [known_encodings EXCEPT ![s] = m.encodings]
           /\ known_names' = [known_names EXCEPT ![s] = m.names]
           /\ key' = [key EXCEPT ![s] = "unset"]
           /\ IF get_known_names(m.names) = {}
              THEN /\ printed' = [printed EXCEPT ![s] = MsgNoUsers]
                   /\ UNCHANGED <<last_attendance, pc>>
              ELSE /\ last_attendance' = [last_attendance EXCEPT ![s] = EmptyDict]
                   /\ printed' = [printed EXCEPT ![s] = m.printed]
                   /\ pc' = [pc EXCEPT ![s] = "idle"]
    /\ UNCHANGED <<now, attendance, users, enc_file, names_file, pending,
                   current_time, mark_now, message, match, cooldown_minutes,
                   file_state, ret, user_seq, to_remove>>

(* a start that goes on into the capture loop although the camera did not  *)
(* open                                                                     *)
StartIgnoringCamera(s) ==
    /\ pc[s] = "stopped"
    /\ LET m == load_encodings(file_state, enc_file, names_file)
       IN  /\ get_known_names(m.names) # {}
           /\ known_encodings' = [known_encodings EXCEPT ![s] = m.encodings]
           /\ known_names' = [known_names EXCEPT ![s] = m.names]
    /\ last_attendance' = [last_attendance EXCEPT ![s] = EmptyDict]
    /\ printed' = [printed EXCEPT ![s] = MsgFatal]
    /\ pc' = [pc EXCEPT ![s] = "idle"]
    /\ UNCHANGED <<now, attendance, users, enc_file, names_file, pending,
                   current_time, mark_now, key, message, match,
                   cooldown_minutes, file_state, ret, user_seq, to_remove>>

(* main lines 186-202 with AttendanceSystem.__init__ lines 21-32 when the   *)
(* camera does not open: the face model and the empty cooldown map are      *)
(* built, __init__ raises, main prints the error and exits with status 1.   *)
StartNoCamera(s) ==
    /\ pc[s] = "stopped"
    /\ LET m == load_encodings(file_state, enc_file, names_file)
       IN  /\ get_known_names(m.names) # {}
           /\ known_encodings' = [known_encodings EXCEPT ![s] = m.encodings]
           /\ known_names' = [known_names EXCEPT ![s] = m.names]
    /\ last_attendance' = [last_attendance EXCEPT ![s] = EmptyDict]
    /\ printed' = [printed EXCEPT ![s] = MsgFatal]
    /\ UNCHANGED <<now, attendance, users, enc_file, names_file, pc, pending,
                   current_time, mark_now, key, message, match,
                   cooldown_minutes, file_state, ret, user_seq, to_remove>>

(* Some process is inside the processing of a frame. *)
Busy == \E s \in Streams : pc[s] \in {"loop", "recent", "insert"}

(* The wall clock moves on, at any point of any process.  Processing a      *)
(* frame is short against a window: while a frame is being processed the    *)
(* clock moves one tick at a time, between frames by any amount.            *)
Tick(instants) ==
    /\ \E t \in instants :
          /\ t > now
          /\ Busy => t = now + 1
          /\ now' = t
    /\ UNCHANGED <<attendance, users, enc_file, names_file, known_encodings,
                   known_names, last_attendance, pc, pending, current_time,
                   mark_now, key, message, match, cooldown_minutes,
                   file_state, ret, printed, user_seq, to_remove>>

(* A stand-alone match: one pass of the loop of recognize_faces, for the    *)
(* embedding x against the population of process 1.                         *)
Match(x) ==
    /\ match' = [input |-> <<x>>,
                 result |-> recognize_face(known_encodings[1], known_names[1], x)]
    /\ UNCHANGED <<now, attendance, users, enc_file, names_file,
                   known_encodings, known_names, last_attendance, pc, pending,
                   current_time, mark_now, key, message, cooldown_minutes,
                   file_state, ret, printed, user_seq, to_remove>>

-----------------------------------------------------------------------------
(* Specifications *)

(* Frames of up to n faces, each one of the embeddings inputs. *)
Frames(inputs, n) == UNION {[1..k -> inputs] : k \in 0..n}

(* Frames that show one face. *)
OneFaceFrames(inputs) == {<<x>> : x \in inputs}

(* The whole windows after the start. *)
WindowMarks == {Epoch + w * Window : w \in 0..MaxWindows}

(* The registered population of the pipeline specifications. *)
RegisteredEncodings == <<0, 200>>
RegisteredNames == <<"alice", "bob">>

InitPipeline ==
    /\ now = Epoch
    /\ attendance = <<>>
    /\ users = [n \in {"alice"} |-> 1]
    /\ enc_file = RegisteredEncodings
    /\ names_file = RegisteredNames
    /\ known_encodings = [s \in Streams |-> RegisteredEncodings]
    /\ known_names = [s \in Streams |-> RegisteredNames]
    /\ last_attendance = [s \in Streams |-> EmptyDict]
    /\ pc = [s \in Streams |-> "idle"]
    /\ pending = [s \in Streams |-> <<>>]
    /\ current_time = [s \in Streams |-> NoTime]
    /\ mark_now = [s \in Streams |-> NoTime]
    /\ key = [s \in Streams |-> "unset"]
    /\ message = [s \in Streams |-> MsgNone]
    /\ match = [input |-> <<>>, result |-> [name |-> Unknown, confidence |-> 0]]
    /\ file_state = FilesOk
    /\ ret = [s \in Streams |-> NoRet]
    /\ printed = [s \in Streams |-> MsgLoaded]
    /\ user_seq = 1
    /\ to_remove = [s \in Streams |-> {}]

Init ==
    /\ InitPipeline
    /\ cooldown_minutes = ATTENDANCE_COOLDOWN_MINUTES

Pipeline(s) ==
    \/ SkipUnqualified(s)
    \/ SkipCooldown(s)
    \/ CallMark(s)
    \/ MarkDuplicate(s)
    \/ MarkNotRecent(s)
    \/ MarkInsert(s)
    \/ EndFrame(s)
    \/ NoKey(s)
    \/ Reset(s)
    \/ Quit(s)
    \/ Start(s)

(* One capture pipeline. *)
NextSingle ==
    \/ \E faces \in OneFaceFrames({0, 45, 200}) : ReadFrame(1, faces)
    \/ Pipeline(1)
    \/ Tick(Instants)

SpecSingle == Init /\ [][NextSingle]_vars

(* Two capture pipelines, two processes, on one attendance table. *)
Next ==
    \/ \E s \in Streams, faces \in OneFaceFrames({0, 45, 200}) : ReadFrame(s, faces)
    \/ \E s \in Streams : Pipeline(s)
    \/ Tick(WindowMarks)

Spec == Init /\ [][Next]_vars

(* One capture pipeline, frames of several faces of every kind. *)
NextFaces ==
    \/ \E faces \in Frames(FaceInputs, MaxFaces) : ReadFrame(1, faces)
    \/ Pipeline(1)
    \/ Tick(WindowMarks)

SpecFaces == Init /\ [][NextFaces]_vars

(* One capture pipeline under a configured cooldown of either length. *)
CooldownChoices == {AltCooldownMinutes, ATTENDANCE_COOLDOWN_MINUTES}

InitCfg ==
    /\ InitPipeline
    /\ cooldown_minutes \in CooldownChoices

NextCfg ==
    \/ \E faces \in OneFaceFrames({0, 45}) : ReadFrame(1, faces)
    \/ Pipeline(1)
    \/ Tick(Instants \cup ClockInstants(cooldown_minutes))

SpecCfg == InitCfg /\ [][NextCfg]_vars

(* Matching alone, over every population of up to MaxPop embeddings. *)
Populations ==
    UNION {[1..k -> PopEmbeddings \X Persons] : k \in 0..MaxPop}

InitMatch ==
    /\ \E p \in Populations :
          /\ enc_file = [i \in 1..Len(p) |-> p[i][1]]
          /\ names_file = [i \in 1..Len(p) |-> p[i][2]]
    /\ known_encodings = [s \in Streams |-> enc_file]
    /\ known_names = [s \in Streams |-> names_file]
    /\ now = Epoch
    /\ attendance = <<>>
    /\ users = [n \in {"alice"} |-> 1]
    /\ last_attendance = [s \in Streams |-> EmptyDict]
    /\ pc = [s \in Streams |-> "stopped"]
    /\ pending = [s \in Streams |-> <<>>]
    /\ current_time = [s \in Streams |-> NoTime]
    /\ mark_now = [s \in Streams |-> NoTime]
    /\ key = [s \in Streams |-> "unset"]
    /\ message = [s \in Streams |-> MsgNone]
    /\ match = [input |-> <<>>, result |-> [name |-> Unknown, confidence |-> 0]]
    /\ file_state = FilesOk
    /\ ret = [s \in Streams |-> NoRet]
    /\ printed = [s \in Streams |-> MsgLoaded]
    /\ user_seq = 1
    /\ to_remove = [s \in Streams |-> {}]
    /\ cooldown_minutes = ATTENDANCE_COOLDOWN_MINUTES

NextMatch == \E x \in MatchInputs : Match(x)

SpecMatch == InitMatch /\ [][NextMatch]_vars

(* Matching over populations whose embeddings lie on either side of an      *)
(* input, at the same distance from it.                                     *)
TieEmbeddings == {0, 120}
TieInputs == {0, 40, 60, 80, 120}

TiePopulations ==
    UNION {[1..k -> TieEmbeddings \X Persons] : k \in 0..MaxPop}

InitTie ==
    /\ \E p \in TiePopulations :
          /\ enc_file = [i \in 1..Len(p) |-> p[i][1]]
          /\ names_file = [i \in 1..Len(p) |-> p[i][2]]
    /\ known_encodings = [s \in Streams |-> enc_file]
    /\ known_names = [s \in Streams |-> names_file]
    /\ now = Epoch
    /\ attendance = <<>>
    /\ users = [n \in {"alice"} |-> 1]
    /\ last_attendance = [s \in Streams |-> EmptyDict]
    /\ pc = [s \in Streams |-> "stopped"]
    /\ pending = [s \in Streams |-> <<>>]
    /\ current_time = [s \in Streams |-> NoTime]
    /\ mark_now = [s \in Streams |-> NoTime]
    /\ key = [s \in Streams |-> "unset"]
    /\ message = [s \in Streams |-> MsgNone]
    /\ match = [input |-> <<>>, result |-> [name |-> Unknown, confidence |-> 0]]
    /\ file_state = FilesOk
    /\ ret = [s \in Streams |-> NoRet]
    /\ printed = [s \in Streams |-> MsgLoaded]
    /\ user_seq = 1
    /\ to_remove = [s \in Streams |-> {}]
    /\ cooldown_minutes = ATTENDANCE_COOLDOWN_MINUTES

NextTie == \E x \in TieInputs : Match(x)

SpecTie == InitTie /\ [][NextTie]_vars

(* The images registration may take of a person: one that gives no         *)
(* encoding, or one that gives an encoding near the person's face.          *)
SampleEmbeddings(name) == IF name = "alice" THEN {0} ELSE {200}
Images(name) == {<<>>} \cup {<<e>> : e \in SampleEmbeddings(name)}
ImageLists(name) == UNION {[1..k -> Images(name)] : k \in 0..MaxImages}

(* The embedding matched against the store: close to alice's sample. *)
StoreInputs == {40}

(* The conditions the two files may be found in. *)
FileConditions == [enc : FileStates, names : FileStates]

(* One process and its face model: the model is loaded, persons are added  *)
(* and removed, the saves may fail.                                         *)
InitFiles(conditions) ==
    /\ file_state \in conditions
    /\ enc_file = IF file_state.enc = "ok" THEN RegisteredEncodings ELSE <<>>
    /\ names_file = IF file_state.names = "ok" THEN RegisteredNames ELSE <<>>
    /\ LET m == load_encodings(file_state, enc_file, names_file)
       IN  /\ known_encodings = [s \in Streams |-> m.encodings]
           /\ known_names = [s \in Streams |-> m.names]
           /\ printed = [s \in Streams |-> m.printed]
    /\ now = Epoch
    /\ attendance = <<>>
    /\ users = [n \in {"alice"} |-> 1]
    /\ last_attendance = [s \in Streams |-> EmptyDict]
    /\ pc = [s \in Streams |-> "stopped"]
    /\ pending = [s \in Streams |-> <<>>]
    /\ current_time = [s \in Streams |-> NoTime]
    /\ mark_now = [s \in Streams |-> NoTime]
    /\ key = [s \in Streams |-> "unset"]
    /\ message = [s \in Streams |-> MsgNone]
    /\ match = [input |-> <<>>, result |-> [name |-> Unknown, confidence |-> 0]]
    /\ cooldown_minutes = ATTENDANCE_COOLDOWN_MINUTES
    /\ ret = [s \in Streams |-> NoRet]
    /\ user_seq = 1
    /\ to_remove = [s \in Streams |-> {}]

InitStore == InitFiles({FilesOk})

NextStore ==
    \/ Load(1)
    \/ \E name \in Persons : \E image_paths \in ImageLists(name) :
          AddPerson(1, name, image_paths)
    \/ \E name \in Persons : RemovePerson(1, name)
    \/ SaveEncodings(1)
    \/ SaveNames(1)
    \/ SaveFails(1, {FALSE})
    \/ \E x \in StoreInputs : Match(x)

SpecStore == InitStore /\ [][NextStore]_vars

(* Two processes on the same two files: process 2 registers and removes    *)
(* persons (register_user, the dashboard), process 1 builds its face model  *)
(* from the files and matches (the capture process).                        *)
NextShared ==
    \/ Load(1)
    \/ \E x \in StoreInputs : Match(x)
    \/ Load(2)
    \/ \E name \in Persons : \E image_paths \in ImageLists(name) :
          AddPerson(2, name, image_paths)
    \/ \E name \in Persons : RemovePerson(2, name)
    \/ SaveEncodings(2)
    \/ SaveNames(2)

SpecShared == InitStore /\ [][NextShared]_vars

(* Two writers on the same two files.  Process 1 is the dashboard: its face *)
(* model is built once, when the module is loaded, and removes bob.         *)
(* Process 2 is register_user: each run builds a face model from the files  *)
(* and adds alice.  bob alone is registered at the start.  A call of one    *)
(* process begins when no call of the other is under way.                   *)
InitStale ==
    /\ enc_file = <<200>>
    /\ names_file = <<"bob">>
    /\ file_state = FilesOk
    /\ LET m == load_encodings(file_state, enc_file, names_file)
       IN  /\ known_encodings = [s \in Streams |-> m.encodings]
           /\ known_names = [s \in Streams |-> m.names]
           /\ printed = [s \in Streams |-> m.printed]
    /\ now = Epoch
    /\ attendance = <<>>
    /\ users = [n \in {"bob"} |-> 1]
    /\ last_attendance = [s \in Streams |-> EmptyDict]
    /\ pc = [s \in Streams |-> "stopped"]
    /\ pending = [s \in Streams |-> <<>>]
    /\ current_time = [s \in Streams |-> NoTime]
    /\ mark_now = [s \in Streams |-> NoTime]
    /\ key = [s \in Streams |-> "unset"]
    /\ message = [s \in Streams |-> MsgNone]
    /\ match = [input |-> <<>>, result |-> [name |-> Unknown, confidence |-> 0]]
    /\ cooldown_minutes = ATTENDANCE_COOLDOWN_MINUTES
    /\ ret = [s \in Streams |-> NoRet]
    /\ user_seq = 1
    /\ to_remove = [s \in Streams |-> {}]

NextStale ==
    \/ pc[2] = "stopped" /\ RemovePerson(1, "bob")
    \/ SaveEncodings(1)
    \/ SaveNames(1)
    \/ \E x \in SampleEmbeddings("alice") \cup SampleEmbeddings("bob") : Match(x)
    \/ pc[1] = "stopped" /\ Load(2)
    \/ /\ pc[1] = "stopped"
       /\ \E image_paths \in ImageLists("alice") :
             AddPerson(2, "alice", image_paths)
    \/ SaveEncodings(2)
    \/ SaveNames(2)

SpecStale == InitStale /\ [][NextStale]_vars

(* A fresh installation (no file yet) to which persons are added, each of   *)
(* the two writes of a save succeeding or failing.                          *)
InitSave == InitFiles({[enc |-> "missing", names |-> "missing"]})

NextSave ==
    \/ Load(1)
    \/ \E name \in Persons : \E image_paths \in ImageLists(name) :
          AddPerson(1, name, image_paths)
    \/ SaveEncodings(1)
    \/ SaveNames(1)
    \/ SaveFails(1, BOOLEAN)

SpecSave == InitSave /\ [][NextSave]_vars

(* The face model of process 1 built from files found in any condition,     *)
(* while process 2 adds persons, a write of its save at times cutting the   *)
(* file short.                                                              *)
InitLoad == InitFiles(FileConditions)

NextLoad ==
    \/ Load(1)
    \/ \E x \in PopEmbeddings : Match(x)
    \/ \E name \in Persons : \E image_paths \in ImageLists(name) :
          AddPerson(2, name, image_paths)
    \/ SaveEncodings(2)
    \/ SaveNames(2)
    \/ SaveFails(2, {TRUE})

SpecLoad == InitLoad /\ [][NextLoad]_vars

(* One capture pipeline (process 1) while process 2 administers: persons    *)
(* are registered (add_person, add_user) and users are deleted.             *)
InitAdmin == InitFiles({FilesOk})

NextAdmin ==
    \/ \E faces \in OneFaceFrames({0, 200}) : ReadFrame(1, faces)
    \/ Pipeline(1)
    \/ Tick(WindowMarks)
    \/ \E name \in Persons : AddUser(2, name)
    \/ \E name \in Persons : DeleteUser(2, name)
    \/ SaveEncodings(2)
    \/ SaveNames(2)

SpecAdmin == InitAdmin /\ [][NextAdmin]_vars

(* One capture pipeline whose store may refuse a write and whose camera may *)
(* fail to open at a start.                                                 *)
NextFail ==
    \/ \E faces \in OneFaceFrames({0, 45, 200}) : ReadFrame(1, faces)
    \/ Pipeline(1)
    \/ MarkFails(1)
    \/ StartNoCamera(1)
    \/ Tick(Instants)

SpecFail == Init /\ [][NextFail]_vars

(* One capture pipeline over every directory: each subset of the persons    *)
(* the face model knows may have its row of users.                          *)
Directories ==
    {[n \in registered |-> IF n = "alice" THEN 1 ELSE MaxUsers] :
        registered \in SUBSET Persons}

InitDir ==
    /\ users \in Directories
    /\ user_seq = MaxUsers
    /\ now = Epoch
    /\ attendance = <<>>
    /\ enc_file = RegisteredEncodings
    /\ names_file = RegisteredNames
    /\ known_encodings = [s \in Streams |-> RegisteredEncodings]
    /\ known_names = [s \in Streams |-> RegisteredNames]
    /\ last_attendance = [s \in Streams |-> EmptyDict]
    /\ pc = [s \in Streams |-> "idle"]
    /\ pending = [s \in Streams |-> <<>>]
    /\ current_time = [s \in Streams |-> NoTime]
    /\ mark_now = [s \in Streams |-> NoTime]
    /\ key = [s \in Streams |-> "unset"]
    /\ message = [s \in Streams |-> MsgNone]
    /\ match = [input |-> <<>>, result |-> [name |-> Unknown, confidence |-> 0]]
    /\ cooldown_minutes = ATTENDANCE_COOLDOWN_MINUTES
    /\ file_state = FilesOk
    /\ ret = [s \in Streams |-> NoRet]
    /\ printed = [s \in Streams |-> MsgLoaded]
    /\ to_remove = [s \in Streams |-> {}]

NextDir ==
    \/ \E faces \in OneFaceFrames({0, 45, 200}) : ReadFrame(1, faces)
    \/ Pipeline(1)
    \/ Tick(WindowMarks)

SpecDir == InitDir /\ [][NextDir]_vars

-----------------------------------------------------------------------------
(* Claims *)

(* The rows of one person, by index. *)
RowsOf(name) == {i \in 1..Len(attendance) : attendance[i].name = name}

(* Five minutes, in whole seconds, as timestamps count them. *)
WindowSeconds == ATTENDANCE_COOLDOWN_MINUTES * SecondsPerMinute

(* Five minutes, in ticks, as the exact instants count them. *)
WindowTicks == WindowSeconds * TicksPerSecond

(* The distance of two numbers. *)
Dist(a, b) == IF a > b THEN a - b ELSE b - a

(* C1: in a single capture pipeline (frames, cooldown resets, restarts) the *)
(* attendance table never holds two rows of one person whose timestamps are *)
(* less than one cooldown window (5 minutes) apart.                         *)
C1_OneEventPerWindow ==
    \A n \in Persons : \A i, j \in RowsOf(n) :
        i < j => Dist(attendance[j].timestamp, attendance[i].timestamp)
                   >= WindowSeconds

(* C2: with two capture pipelines on one attendance table, every window of  *)
(* five minutes that starts at a row of a person holds no other row of that *)
(* person, whatever the interleaving of the recency checks and the inserts. *)
C2_OneEventPerWindowShared ==
    \A n \in Persons : \A i \in RowsOf(n) :
        Cardinality({j \in RowsOf(n) :
                        /\ attendance[j].timestamp >= attendance[i].timestamp
                        /\ attendance[j].timestamp - attendance[i].timestamp
                             < WindowSeconds}) = 1

(* A step of pipeline 1 that decides on the qualified face at the head of   *)
(* the loop: known identity, confidence at or above the floor.              *)
GuardStep ==
    /\ pc[1] = "loop"
    /\ pending[1] # <<>>
    /\ face(1).name # Unknown
    /\ face(1).confidence >= CONFIDENCE_THRESHOLD
    /\ <<pc[1], pending[1]>>' # <<pc[1], pending[1]>>

(* The face is passed over: nothing is written, the loop goes on. *)
Suppressed ==
    /\ pc'[1] = "loop"
    /\ pending'[1] = Tail(pending[1])
    /\ attendance' = attendance
    /\ last_attendance' = last_attendance

(* The face goes on to the recorder. *)
Passed ==
    /\ pc'[1] = "recent"
    /\ pending'[1] = pending[1]

(* C3: with last_attendance[name] = t0, the guard check at instant t        *)
(* suppresses the face for t in [t0, t0 + window) and lets it pass for      *)
(* t >= t0 + window, window = ATTENDANCE_COOLDOWN_MINUTES * 60 seconds; a   *)
(* person with no entry passes.                                             *)
C3_GuardWindow ==
    [][GuardStep =>
         LET n == face(1).name
             t == current_time[1]
             d == last_attendance[1]
         IN  IF n \in DOMAIN d
             THEN /\ d[n] <= t
                  /\ t < d[n] + WindowTicks => Suppressed
                  /\ t >= d[n] + WindowTicks => Passed
             ELSE Passed]_vars

(* C3 witness: a guard check exactly one window after the recorded instant  *)
(* has let the face pass.                                                   *)
C3_Witness ==
    /\ pc[1] = "recent"
    /\ face(1).name \in DOMAIN last_attendance[1]
    /\ current_time[1] = last_attendance[1][face(1).name] + WindowTicks

(* C4: a call of mark_attendance whose clock reads agree, made less than    *)
(* five minutes after the call that wrote a row of the same person, does    *)
(* not go on to insert: it returns the duplicate outcome.                   *)
C4_SecondCallInWindowIsDuplicate ==
    [][(/\ pc[1] = "recent"
        /\ now = mark_now[1]
        /\ \E i \in RowsOf(face(1).name) :
              mark_now[1] - attendance[i].instant < WindowTicks)
       => pc'[1] # "insert"]_vars

C6_AcceptedAfterConfiguredWindow ==
    [][(/\ pc[1] = "recent"
        /\ pc'[1] = "loop"
        /\ message'[1] = MsgDuplicate)
       => \E i \in RowsOf(face(1).name) :
             current_time[1] - attendance[i].instant < Cooldown]_vars

(* C7: key 'r' leaves the cooldown map of the pipeline without any entry,   *)
(* and with no entry the guard check of a qualified face of any person lets *)
(* it pass to the recorder, whatever that person's last accepted instant.   *)
C7_ResetMakesEligible ==
    /\ [][Reset(1) => DOMAIN last_attendance'[1] = {}]_vars
    /\ [][(GuardStep /\ DOMAIN last_attendance[1] = {}) => Passed]_vars

(* C7 witness: in the frame after key 'r' the guard has let a person pass   *)
(* whose accepted event lies inside the window.                             *)
C7_Witness ==
    /\ pc[1] = "recent"
    /\ key[1] = "r"
    /\ \E i \in RowsOf(face(1).name) :
          current_time[1] - attendance[i].instant < WindowTicks

(* C8: a face that is Unknown or below the confidence floor is passed over  *)
(* without reaching the guard or the recorder: the step writes no row and   *)
(* no cooldown entry; no row and no entry ever stems from such a face; a    *)
(* known face exactly at the floor with no cooldown entry reaches the       *)
(* recorder.                                                                *)
C8_FloorGatesGuardAndRecorder ==
    /\ [](\A i \in 1..Len(attendance) :
            /\ attendance[i].name # Unknown
            /\ attendance[i].confidence >= CONFIDENCE_THRESHOLD)
    /\ [](\A n \in DOMAIN last_attendance[1] : RowsOf(n) # {})
    /\ [][(/\ pc[1] = "loop"
           /\ pending[1] # <<>>
           /\ \/ face(1).name = Unknown
              \/ face(1).confidence < CONFIDENCE_THRESHOLD)
          => /\ attendance' = attendance
             /\ last_attendance' = last_attendance
             /\ pc'[1] = "loop"]_vars
    /\ [][(/\ GuardStep
           /\ face(1).confidence = CONFIDENCE_THRESHOLD
           /\ face(1).name \notin DOMAIN last_attendance[1])
          => Passed]_vars

(* C8 witness: a face exactly at the floor has been recorded, and the loop  *)
(* stands at a face whose identity is resolved with a confidence below the  *)
(* floor (0.55).                                                            *)
C8_Witness ==
    /\ pc[1] = "loop"
    /\ pending[1] # <<>>
    /\ face(1).name # Unknown
    /\ face(1).confidence < CONFIDENCE_THRESHOLD
    /\ message[1] = MsgMarked
    /\ \E i \in 1..Len(attendance) :
          attendance[i].confidence = CONFIDENCE_THRESHOLD

(* The stand-alone match has run. *)
Matched == match.input # <<>>

(* The indices of the population of process 1, the embedding matched and    *)
(* the smallest distance from it to the population.                         *)
PopIndices == 1..Len(known_encodings[1])
MatchInput == match.input[1]
Nearest(d) == \A j \in PopIndices : d <= Dist(known_encodings[1][j], MatchInput)

(* C9: for an input equal to an embedding of the population, the match      *)
(* returns the identity of every member that holds that embedding, with     *)
(* confidence >= 1 - tolerance.                                             *)
C9_ExactInputReturnsThatMember ==
    Matched =>
        \A i \in PopIndices :
            known_encodings[1][i] = MatchInput
            => /\ match.result.name = known_names[1][i]
               /\ match.result.confidence >= One - FACE_RECOGNITION_TOLERANCE

(* C9 as amended: for an input equal to an embedding of the population, the *)
(* match returns the identity at the lowest index holding that embedding,   *)
(* with confidence 1.0.                                                     *)
C9_ExactInputReturnsLowestIndex ==
    Matched =>
        \A i \in PopIndices :
            (/\ known_encodings[1][i] = MatchInput
             /\ \A j \in 1..(i - 1) : known_encodings[1][j] # MatchInput)
            => /\ match.result.name = known_names[1][i]
               /\ match.result.confidence = One
               /\ match.result.confidence >= One - FACE_RECOGNITION_TOLERANCE

(* C9 witness: the input is held under two identities and the match has     *)
(* returned the first of them.                                              *)
C9_Witness ==
    /\ Matched
    /\ \E i, j \in PopIndices :
          /\ i < j
          /\ known_encodings[1][i] = MatchInput
          /\ known_encodings[1][j] = MatchInput
          /\ known_names[1][i] # known_names[1][j]
          /\ match.result.name = known_names[1][i]

(* C10: when the nearest embedding of the population is farther than the    *)
(* tolerance the match is Unknown with confidence 0; when it is exactly at  *)
(* the tolerance the match is accepted, with confidence 1 - tolerance.      *)
C10_ToleranceIsAHardThreshold ==
    Matched =>
        \A i \in PopIndices :
            LET d == Dist(known_encodings[1][i], MatchInput)
            IN  Nearest(d) =>
                  /\ d > FACE_RECOGNITION_TOLERANCE
                     => match.result = [name |-> Unknown, confidence |-> 0]
                  /\ d = FACE_RECOGNITION_TOLERANCE
                     => /\ match.result.name # Unknown
                        /\ match.result.confidence
                             = One - FACE_RECOGNITION_TOLERANCE

(* C10 witness: a match whose nearest embedding is exactly at the tolerance *)
(* has been accepted.                                                       *)
C10_Witness ==
    /\ Matched
    /\ PopIndices # {}
    /\ Nearest(FACE_RECOGNITION_TOLERANCE)
    /\ \E i \in PopIndices :
          Dist(known_encodings[1][i], MatchInput) = FACE_RECOGNITION_TOLERANCE
    /\ match.result.name # Unknown

(* The names the face model of process 1 holds. *)
Names1 == get_known_names(known_names[1])

(* remove_person(p) on the model of process 1 raises instead of returning:  *)
(* an index that holds p lies past the end of known_encodings.              *)
RemoveRaises(p) ==
    \E i \in indices_to_remove(known_names[1], p) : i > Len(known_encodings[1])

(* C11: a call of remove_person(p) that returns leaves no entry of p in the *)
(* population; p comes back into it only by add_person(p) or when the model *)
(* is built anew from the files; a match returns none but the names the     *)
(* population holds, and Unknown when no embedding of it is within the      *)
(* tolerance of the input.                                                  *)
C11_RemovedPersonIsNeverMatched ==
    /\ [][\A p \in Persons : (RemovePerson(1, p) /\ ~RemoveRaises(p))
                               => p \notin Names1']_vars
    /\ [][\A p \in Persons :
            (p \notin Names1 /\ p \in Names1')
            => \/ \E image_paths \in ImageLists(p) : AddPerson(1, p, image_paths)
               \/ Load(1)]_vars
    /\ [][\A x \in StoreInputs : Match(x) =>
            /\ \A p \in Persons : match'.result.name = p => p \in Names1
            /\ (\A i \in 1..Len(known_encodings[1]) :
                   Dist(known_encodings[1][i], x) > FACE_RECOGNITION_TOLERANCE)
               => match'.result.name = Unknown]_vars

(* C11 witness: alice has been removed and saved, bob is still held, and an *)
(* input close to the removed sample of alice has resolved to Unknown.      *)
C11_Witness ==
    /\ pc[1] = "stopped"
    /\ printed[1] = MsgRemoved
    /\ "alice" \notin Names1
    /\ "bob" \in Names1
    /\ names_file = known_names[1]
    /\ match.input = <<40>>
    /\ match.result.name = Unknown

(* The person an embedding was taken from. *)
Owner(e) == CHOOSE name \in Persons : e \in SampleEmbeddings(name)

(* C12: while another process adds and removes persons on the same files,   *)
(* the population process 1 matches against is whole: known_encodings and   *)
(* known_names are of one length and every index pairs an embedding with    *)
(* the name of the person it was taken from.                                *)
C12_MatchNeverSeesTornPopulation ==
    /\ Len(known_encodings[1]) = Len(known_names[1])
    /\ \A i \in 1..Len(known_encodings[1]) :
          i \in 1..Len(known_names[1])
          => known_names[1][i] = Owner(known_encodings[1][i])

(* Every row of the attendance table is still there after the step, at its *)
(* place and as it was.                                                     *)
RowsKept ==
    \A i \in 1..Len(attendance) :
        /\ i <= Len(attendance')
        /\ attendance'[i] = attendance[i]

(* C13: no step of the system (marking, duplicate suppression, cooldown     *)
(* reset, registration, user deletion) changes or removes a row of the      *)
(* attendance table.                                                        *)
C13_EventsAreAppendOnly == [][RowsKept]_vars

(* C13 as amended: a row of the attendance table is changed or removed by   *)
(* no step but the deletion of a user, and deleting a user removes the rows *)
(* of that person and keeps every other row as it was, in order.            *)
C13_EventsKeptUntilUserDeleted ==
    [][\/ RowsKept
       \/ \E name \in Persons :
             /\ DeleteUser(2, name)
             /\ attendance' = SelectSeq(attendance, LAMBDA r : r.name # name)]_vars

(* C13 witness: alice and bob were both recorded, alice was deleted: the    *)
(* table holds the row of bob and no row of alice.                          *)
C13_Witness ==
    /\ "alice" \notin DOMAIN users
    /\ "alice" \notin get_known_names(known_names[2])
    /\ RowsOf("alice") = {}
    /\ RowsOf("bob") # {}
    /\ last_attendance[1] # EmptyDict
    /\ "alice" \in DOMAIN last_attendance[1]

(* C14: when the write of an attendance event fails because the store       *)
(* cannot be written, the failure is shown to the operator and the cooldown *)
(* entry of that person is still set to the current instant of the frame,   *)
(* the capture loop going on.                                               *)
C14_FailedWriteStillUpdatesGuard ==
    [][MarkFails(1) =>
          /\ printed'[1] = MsgFatal
          /\ face(1).name \in DOMAIN last_attendance'[1]
          /\ last_attendance'[1][face(1).name] = current_time[1]
          /\ pc'[1] # "stopped"]_vars

(* No frame can be read by process 1. *)
NoFrameRead ==
    ~ENABLED (\E faces \in OneFaceFrames({0, 45, 200}) : ReadFrame(1, faces))

(* C17: a start at which the camera does not open ends the process with an  *)
(* error: it is stopped, no frame can be read, no face is matched or        *)
(* pending, no attendance row is written and the cooldown map holds no      *)
(* entry.                                                                   *)
C17_NoCameraIsFatal ==
    [][StartNoCamera(1) =>
          /\ printed'[1] = MsgFatal
          /\ pc'[1] = "stopped"
          /\ NoFrameRead'
          /\ pending'[1] = <<>>
          /\ match' = match
          /\ attendance' = attendance
          /\ last_attendance'[1] = EmptyDict]_vars

(* C17 witness: after a run that recorded alice and was quit, the start     *)
(* failed on the camera.                                                    *)
C17_Witness ==
    /\ printed[1] = MsgFatal
    /\ key[1] = "q"
    /\ pc[1] = "stopped"
    /\ RowsOf("alice") # {}
    /\ last_attendance[1] = EmptyDict

(* The population process 1 holds and the persisted one are as before. *)
PopulationUnchanged ==
    /\ known_encodings'[1] = known_encodings[1]
    /\ known_names'[1] = known_names[1]
    /\ enc_file' = enc_file
    /\ names_file' = names_file
    /\ file_state' = file_state

(* C15: add_person returns False, changing neither the held nor the         *)
(* persisted population, exactly when no image gave an encoding; otherwise  *)
(* every encoding is appended under the name and the store is saved; when   *)
(* a write of the save fails, the failure is reported and the held          *)
(* population stays as added.                                               *)
C15_AddFailsOnlyWithoutEncodings ==
    [][\A name \in Persons : \A image_paths \in ImageLists(name) :
          LET encs == person_encodings(image_paths)
          IN  /\ AddPerson(1, name, image_paths) /\ encs = <<>> =>
                    /\ ret'[1] = False
                    /\ printed'[1] = MsgNoValid
                    /\ PopulationUnchanged
              /\ AddPerson(1, name, image_paths) /\ encs # <<>> =>
                    /\ known_encodings'[1] = known_encodings[1] \o encs
                    /\ known_names'[1] =
                          known_names[1] \o [i \in 1..Len(encs) |-> name]
                    /\ pc'[1] = "add:save_enc"
              /\ SaveNames(1) /\ pc[1] = "add:save_names" =>
                    /\ ret'[1] = True
                    /\ printed'[1] = MsgSaved
                    /\ enc_file' = known_encodings'[1]
                    /\ names_file' = known_names'[1]
                    /\ file_state' = FilesOk
                    /\ known_encodings'[1] = known_encodings[1]
                    /\ known_names'[1] = known_names[1]
              /\ SaveFails(1, BOOLEAN) /\ pc[1] \in {"add:save_enc", "add:save_names"} =>
                    /\ ret'[1] # False
                    /\ printed'[1] = MsgSaveError
                    /\ known_encodings'[1] = known_encodings[1]
                    /\ known_names'[1] = known_names[1]]_vars

(* C15 witness: two encodings of bob were added and the save failed: the    *)
(* held population has them, the files do not.                              *)
C15_Witness ==
    /\ pc[1] = "stopped"
    /\ printed[1] = MsgSaveError
    /\ known_encodings[1] = <<200, 200>>
    /\ known_names[1] = <<"bob", "bob">>
    /\ names_file # known_names[1]

(* remove_person on the model of process 1 returns in this step: at once    *)
(* when no index holds the name, else from its save.                        *)
RemoveReturns ==
    \/ \E p \in Persons :
          RemovePerson(1, p) /\ indices_to_remove(known_names[1], p) = {}
    \/ pc[1] \in {"remove:save_enc", "remove:save_names"} /\ pc'[1] = "stopped"

(* The list without its entries at the indices, the others in their order. *)
Without(list, kept, indices) ==
    /\ Len(kept) = Cardinality({i \in 1..Len(list) : i \notin indices})
    /\ \A i \in 1..Len(list) :
          i \notin indices =>
             kept[i - Cardinality({j \in indices : j < i})] = list[i]

(* C16: remove_person returns the number of embeddings it removed, 0 when   *)
(* the person had none.                                                     *)
C16_RemoveReturnsCount ==
    [][RemoveReturns => ret'[1] = Cardinality(to_remove[1])]_vars

(* C16 as amended: remove_person(p) deletes the entry at every index that   *)
(* holds p from both lists, every other entry staying in its order next to  *)
(* the entry it was paired with, and returns True once the save is over;    *)
(* with no index holding p it reports that and returns False, nothing       *)
(* changed; with such an index past the end of known_encodings it raises    *)
(* and nothing is removed.                                                  *)
C16_RemoveReturnsWhetherRemoved ==
    /\ [][\A p \in Persons :
            LET indices == {i \in 1..Len(known_names[1]) : known_names[1][i] = p}
            IN  RemovePerson(1, p) =>
                   IF indices = {}
                   THEN /\ ret'[1] = False
                        /\ printed'[1] = MsgNoEncodings
                        /\ known_encodings'[1] = known_encodings[1]
                        /\ known_names'[1] = known_names[1]
                   ELSE IF RemoveRaises(p)
                   THEN /\ printed'[1] = MsgFatal
                        /\ ret'[1] = ret[1]
                        /\ known_encodings'[1] = known_encodings[1]
                        /\ known_names'[1] = known_names[1]
                   ELSE /\ p \notin Names1'
                        /\ Without(known_names[1], known_names'[1], indices)
                        /\ Without(known_encodings[1], known_encodings'[1], indices)
                        /\ to_remove'[1] = indices]_vars
    /\ [][RemoveReturns /\ to_remove[1] # {} =>
            /\ ret'[1] = True
            /\ printed'[1] = MsgRemoved
            /\ known_encodings'[1] = known_encodings[1]
            /\ known_names'[1] = known_names[1]]_vars

(* C16 witness: both entries of the population were alice's, remove_person  *)
(* has deleted the two of them and is in its save.                          *)
C16_Witness ==
    /\ pc[1] = "remove:save_names"
    /\ to_remove[1] = {1, 2}
    /\ known_names[1] = <<>>
    /\ known_encodings[1] = <<>>
    /\ names_file = <<"alice", "alice">>

(* C18: a load that finds a file missing or not loadable reports it and     *)
(* leaves known_encodings and known_names both empty, the process going on; *)
(* every face matched against the population so loaded is Unknown.          *)
C18_FailedLoadStartsEmpty ==
    /\ [][(Load(1) /\ file_state # FilesOk) =>
            /\ known_encodings'[1] = <<>>
            /\ known_names'[1] = <<>>
            /\ printed'[1] = IF "missing" \in {file_state.enc, file_state.names}
                             THEN MsgFresh ELSE MsgLoadError
            /\ pc'[1] = pc[1]]_vars
    /\ [][\A x \in PopEmbeddings :
            (Match(x) /\ printed[1] \in {MsgFresh, MsgLoadError})
            => match'.result = [name |-> Unknown, confidence |-> 0]]_vars

(* C18 witness: the names file could not be loaded while the encodings file *)
(* holds alice's embedding; the load reported it and alice's face resolved  *)
(* to Unknown.                                                              *)
C18_Witness ==
    /\ file_state = [enc |-> "ok", names |-> "corrupt"]
    /\ enc_file # <<>>
    /\ enc_file[1] = 0
    /\ printed[1] = MsgLoadError
    /\ known_encodings[1] = <<>>
    /\ match.input = <<0>>
    /\ match.result.name = Unknown

(* What the sighting process 1 stands at comes to, told from the face, the  *)
(* cooldown map, the clock and the name and timestamp of the rows, the      *)
(* directory left out.                                                      *)
Discarded ==
    \/ face(1).name = Unknown
    \/ face(1).confidence < CONFIDENCE_THRESHOLD
    \/ /\ face(1).name \in DOMAIN last_attendance[1]
       /\ current_time[1] - last_attendance[1][face(1).name] < Cooldown

RecentRow ==
    \E i \in 1..Len(attendance) :
        /\ attendance[i].name = face(1).name
        /\ attendance[i].timestamp > strftime(now - MarkMinutes * TicksPerMinute)

(* C19: the directory gates neither matching nor recording.  Whatever rows  *)
(* users holds, a frame is matched against the population alone; a sighting *)
(* is passed over, refused as a duplicate or recorded according to the      *)
(* face, the cooldown map, the clock and the rows of the table; the row     *)
(* written has the person, instant and confidence of the sighting, and its  *)
(* user_id alone is read from the directory.                                *)
C19_DirectoryOnlyDecorates ==
    /\ [][(pc[1] = "idle" /\ pc'[1] = "loop") =>
            \E faces \in OneFaceFrames({0, 45, 200}) :
               pending'[1] = recognize_faces(RegisteredEncodings,
                                             RegisteredNames, faces)]_vars
    /\ [][(pc[1] = "loop" /\ pending[1] # <<>>
           /\ <<pc[1], pending[1]>> # <<pc'[1], pending'[1]>>) =>
            /\ attendance' = attendance
            /\ last_attendance' = last_attendance
            /\ IF Discarded
               THEN pc'[1] = "loop" /\ pending'[1] = Tail(pending[1])
               ELSE pc'[1] = "recent" /\ pending'[1] = pending[1]]_vars
    /\ [][(pc[1] = "recent" /\ pc'[1] # "recent") =>
            /\ attendance' = attendance
            /\ last_attendance' = last_attendance
            /\ IF RecentRow
               THEN /\ pc'[1] = "loop"
                    /\ message'[1] = MsgDuplicate
                    /\ pending'[1] = Tail(pending[1])
               ELSE pc'[1] = "insert" /\ pending'[1] = pending[1]]_vars
    /\ [][(pc[1] = "insert" /\ pc'[1] # "insert") =>
            /\ Len(attendance') = Len(attendance) + 1
            /\ RowsKept
            /\ LET row == attendance'[Len(attendance')]
               IN  /\ row.name = face(1).name
                   /\ row.timestamp = strftime(mark_now[1])
                   /\ row.confidence = face(1).confidence
                   /\ row.user_id = IF row.name \in DOMAIN users
                                    THEN <<users[row.name]>> ELSE <<>>
            /\ message'[1] = MsgMarked
            /\ last_attendance'[1] =
                  dict_set(last_attendance[1], face(1).name, current_time[1])]_vars
    /\ [][users' = users]_vars

(* C19 witness: one of two persons has a row of users; both were recorded,  *)
(* one row with a user_id and one without.                                  *)
C19_Witness ==
    /\ Cardinality(DOMAIN users) = 1
    /\ \E i, j \in 1..Len(attendance) :
          /\ attendance[i].user_id = <<>>
          /\ attendance[j].user_id # <<>>
          /\ attendance[i].name # attendance[j].name

(* The cooldown entry of name in process 1 is set or changed by the step. *)
EntrySet(name) ==
    /\ name \in DOMAIN last_attendance'[1]
    /\ name \in DOMAIN last_attendance[1] =>
          last_attendance'[1][name] # last_attendance[1][name]

(* Process 1 is within a frame: between the read and the end of the loop. *)
InFrame(at) == at \in {"loop", "recent", "insert"}

(* C20: per sighting the order is guard check, recorder call, guard update. *)
(* The recorder is called from the loop only for a face that is qualified   *)
(* and not in cooldown; a cooldown entry is set only in the step in which   *)
(* the recorder has inserted a row of that person and returned success, and *)
(* to current_time, the instant read when the frame was taken; a duplicate  *)
(* outcome is reported, sets no entry, writes no row and leaves the loop at *)
(* the next face of the frame.                                              *)
C20_GuardSetOnlyAfterRecorderSuccess ==
    /\ [][(pc[1] = "idle" /\ pc'[1] = "loop") => current_time'[1] = now]_vars
    /\ [][(InFrame(pc[1]) /\ InFrame(pc'[1])) =>
             current_time'[1] = current_time[1]]_vars
    /\ [][(pc[1] # "recent" /\ pc'[1] = "recent") =>
            /\ pc[1] = "loop"
            /\ face(1).name # Unknown
            /\ face(1).confidence >= CONFIDENCE_THRESHOLD
            /\ face(1).name \in DOMAIN last_attendance[1] =>
                  current_time[1] - last_attendance[1][face(1).name] >= Cooldown
            /\ last_attendance' = last_attendance]_vars
    /\ [][(pc[1] # "insert" /\ pc'[1] = "insert") =>
            /\ pc[1] = "recent"
            /\ last_attendance' = last_attendance]_vars
    /\ [][\A name \in Persons : EntrySet(name) =>
            /\ pc[1] = "insert"
            /\ face(1).name = name
            /\ Len(attendance') = Len(attendance) + 1
            /\ attendance'[Len(attendance')].name = name
            /\ message'[1] = MsgMarked
            /\ last_attendance'[1][name] = current_time[1]
            /\ pc'[1] = "loop"]_vars
    /\ [][(pc[1] = "recent" /\ pc'[1] = "loop") =>
            /\ message'[1] = MsgDuplicate
            /\ attendance' = attendance
            /\ last_attendance' = last_attendance
            /\ pending'[1] = Tail(pending[1])]_vars

(* C20 witness: after a reset the recorder refused the first face of a      *)
(* frame as a duplicate; no entry was set and a face of the frame is left   *)
(* to process.                                                              *)
C20_Witness ==
    /\ pc[1] = "loop"
    /\ message[1] = MsgDuplicate
    /\ pending[1] # <<>>
    /\ attendance # <<>>
    /\ last_attendance[1] = EmptyDict

(* The indices of the population at the smallest distance from the input. *)
NearestIndices ==
    {i \in PopIndices : Nearest(Dist(known_encodings[1][i], MatchInput))}

(* The lowest of a non-empty set of indices. *)
Lowest(indices) == CHOOSE i \in indices : \A j \in indices : i <= j

(* C21: of several embeddings at the same smallest distance from the input  *)
(* the match returns the identity at the lowest index; the identity and the *)
(* confidence of a match are a function of the population and the input:    *)
(* within the tolerance the name at that index with confidence 1 - the      *)
(* distance, Unknown with confidence 0 otherwise.                           *)
C21_TieGoesToLowestIndex ==
    (Matched /\ PopIndices # {}) =>
        LET i == Lowest(NearestIndices)
            d == Dist(known_encodings[1][i], MatchInput)
        IN  match.result = IF d <= FACE_RECOGNITION_TOLERANCE
                           THEN [name |-> known_names[1][i], confidence |-> One - d]
                           ELSE [name |-> Unknown, confidence |-> 0]

(* C21 witness: two different embeddings under two identities lie at the    *)
(* same smallest distance from the input, and the first of them was         *)
(* returned.                                                                *)
C21_Witness ==
    /\ Matched
    /\ \E i, j \in NearestIndices :
          /\ i < j
          /\ known_encodings[1][i] # known_encodings[1][j]
          /\ known_names[1][i] # known_names[1][j]
          /\ match.result.name = known_names[1][i]
          /\ match.result.name # Unknown

(* The two lists pair every embedding with the name of its person. *)
Paired(encodings, names) ==
    /\ DOMAIN encodings = DOMAIN names
    /\ \A i \in DOMAIN encodings : encodings[i] \in SampleEmbeddings(names[i])

(* C22: in every state of a face model, after any adds and removes and      *)
(* after a reload that follows a save of which only the first write was     *)
(* done, known_encodings and known_names have one length and each position  *)
(* of both belongs to one person.                                           *)
C22_ListsAlwaysPaired ==
    \A s \in Streams : Paired(known_encodings[s], known_names[s])

(* How many entries of the list are value. *)
Count(list, value) == Cardinality({i \in DOMAIN list : list[i] = value})

(* Process 1 does a write of the save of its removal of bob. *)
RemovalWrites ==
    /\ pc[1] \in {"remove:save_enc", "remove:save_names"}
    /\ pc'[1] # pc[1]

(* C23: when register_user has added alice and saved, and the dashboard's   *)
(* face model, built before that, then removes bob and saves, the files     *)
(* still hold every embedding of alice: no write of that save takes an      *)
(* entry of alice out of either file.                                       *)
C23_OtherPersonSurvivesRemoval ==
    [][RemovalWrites =>
          /\ Count(names_file', "alice") >= Count(names_file, "alice")
          /\ \A e \in SampleEmbeddings("alice") :
                Count(enc_file', e) >= Count(enc_file, e)]_vars

(* The frame process 1 stands in was taken a window or more after every     *)
(* event of the person at the head of its loop was written.                 *)
WindowOver ==
    \A i \in RowsOf(face(1).name) :
        current_time[1] >= attendance[i].instant + WindowTicks

(* C24: a sighting that the cooldown map or the recorder's duplicate answer *)
(* suppresses changes neither the cooldown map nor the attendance table, so *)
(* suppressed sightings do not move the window on: a sighting taken one     *)
(* window or more after the person's last event was written passes the      *)
(* guard and is recorded, however many were suppressed in between.          *)
C24_SuppressedSightingChangesNothing ==
    /\ [][(GuardStep /\ pc'[1] = "loop") =>
            /\ attendance' = attendance
            /\ last_attendance' = last_attendance]_vars
    /\ [][(pc[1] = "recent" /\ pc'[1] = "loop") =>
            /\ message'[1] = MsgDuplicate
            /\ attendance' = attendance
            /\ last_attendance' = last_attendance]_vars
    /\ [][(GuardStep /\ WindowOver) => Passed]_vars
    /\ [][(pc[1] = "recent" /\ pc'[1] # "recent" /\ WindowOver) =>
            pc'[1] = "insert"]_vars

(* C24 witness: the person has an event and the cooldown entry set with it, *)
(* no reset or restart since; a sighting taken exactly one window after the *)
(* event has passed the guard and the recorder's recency check.             *)
C24_Witness ==
    /\ pc[1] = "insert"
    /\ key[1] = "none"
    /\ RowsOf(face(1).name) # {}
    /\ face(1).name \in DOMAIN last_attendance[1]
    /\ \E i \in RowsOf(face(1).name) :
          /\ current_time[1] = attendance[i].instant + WindowTicks
          /\ last_attendance[1][face(1).name] = attendance[i].instant

=============================================================================
